---- MODULE Spec2Model ----
(***************************************************************************)
(* The DWH_DB_DB_DATA_COPY Glue job, in its two variants:                  *)
(*   "test"  - src/test.py  : RAW -> STORAGE copy, pg8000 driver           *)
(*   "test2" - src/test2.py : SCHEMA_NO selects RAW -> STORAGE or          *)
(*                            STORAGE -> ANALYSIS, psycopg2 driver         *)
(* One behaviour is one invocation of main().  The secret store, the       *)
(* driver and the warehouse are the environment: each call to them either  *)
(* returns or raises, chosen nondeterministically.                         *)
(***************************************************************************)
EXTENDS Integers, Sequences, FiniteSets, TLC

VARIABLES
    variant,      \* which source file runs
    args,         \* the job arguments, getResolvedOptions' result
    schema_no,    \* int(args['SCHEMA_NO']) once parsed (test2 only)
    pc,           \* position in main()
    exc,          \* the exception in flight, "none" when there is none
    conn,         \* "none" | "open" | "closed"
    queries,      \* queries_to_run
    qi,           \* index of the next query of run_queries' loop
    log,          \* log records the logger emitted, in order
    calls,        \* calls made to the secret store and the driver, in order
    db,           \* committed content of the three tables, by qualified name
    txdb,         \* content as seen inside the connection's transaction
    db0,          \* db when the run started
    truncateCommits, \* whether the warehouse's TRUNCATE commits implicitly
    exit          \* process exit status, -1 while running

vars == <<variant, args, schema_no, pc, exc, conn, queries, qi, log, calls,
          db, txdb, db0, truncateCommits, exit>>

----------------------------------------------------------------------------
(* Bounds *)

MaxArgLen == 2      \* longest SCHEMA_NO argument string
MaxRows == 1        \* rows a table may hold initially are drawn from 1..MaxRows

ArgChars == {"0", "1", "2", "3", "x"}
TableNames == {"orders", "items"}
Rows == 1..MaxRows

Variants == {"test", "test2"}

----------------------------------------------------------------------------
(* int(): the conversion of the SCHEMA_NO argument *)

Digits == {"0", "1", "2", "3", "4", "5", "6", "7", "8", "9"}

DigitVal(c) ==
    CASE c = "0" -> 0 [] c = "1" -> 1 [] c = "2" -> 2 [] c = "3" -> 3
      [] c = "4" -> 4 [] c = "5" -> 5 [] c = "6" -> 6 [] c = "7" -> 7
      [] c = "8" -> 8 [] c = "9" -> 9

RECURSIVE DecimalValue(_)
DecimalValue(s) ==
    IF s = <<>> THEN 0
    ELSE 10 * DecimalValue(SubSeq(s, 1, Len(s) - 1)) + DigitVal(s[Len(s)])

\* int(s) for a string of characters s: raises ValueError on the empty
\* string and on any non-digit, reads leading zeros as decimal digits
ParseInt(s) ==
    IF s # <<>> /\ \A i \in 1..Len(s) : s[i] \in Digits
    THEN [ok |-> TRUE, val |-> DecimalValue(s)]
    ELSE [ok |-> FALSE, val |-> 0]

----------------------------------------------------------------------------
(* The logger *)

LevelNo == [DEBUG |-> 10, INFO |-> 20, ERROR |-> 40]

\* default_level=logging.INFO in both variants
default_level == LevelNo["INFO"]

\* logger.<level>(key, ...): the record is emitted when the level passes
Emit(l, level, key) ==
    IF LevelNo[level] >= default_level
    THEN Append(l, [level |-> level, key |-> key])
    ELSE l

----------------------------------------------------------------------------
(* Statement construction *)

QName(schema, table) == schema \o "." \o table

TruncateSQL(target) == "TRUNCATE TABLE " \o target
InsertSQL(target, source) ==
    "INSERT INTO " \o target \o " SELECT * FROM " \o source

RawName(a) == QName(a.RAW_SCHEMA, a.RAW_TABLE)
StorageName(a) == QName(a.STORAGE_SCHEMA, a.STORAGE_TABLE)
AnalysisName(a) == QName(a.ANALYSIS_SCHEMA, a.ANALYSIS_TABLE)

\* faulty variant: the STORAGE -> ANALYSIS branch reads from the raw table
BuildStatements_WrongSource(v, n, a) ==
    IF v = "test" \/ n = 1
    THEN [ok |-> TRUE,
          queries |-> <<TruncateSQL(StorageName(a)),
                        InsertSQL(StorageName(a), RawName(a))>>]
    ELSE IF n = 2
    THEN [ok |-> TRUE,
          queries |-> <<TruncateSQL(AnalysisName(a)),
                        InsertSQL(AnalysisName(a), RawName(a))>>]
    ELSE [ok |-> FALSE, queries |-> <<>>]

\* faulty variant: the second branch is a plain else, so no mode is rejected
BuildStatements_NoElse(v, n, a) ==
    IF v = "test" \/ n = 1
    THEN [ok |-> TRUE,
          queries |-> <<TruncateSQL(StorageName(a)),
                        InsertSQL(StorageName(a), RawName(a))>>]
    ELSE [ok |-> TRUE,
          queries |-> <<TruncateSQL(AnalysisName(a)),
                        InsertSQL(AnalysisName(a), StorageName(a))>>]

\* queries_to_run of variant v for mode n; ok = FALSE is the else branch
\* that raises ValueError
BuildStatements(v, n, a) ==
    IF v = "test" \/ n = 1
    THEN [ok |-> TRUE,
          queries |-> <<TruncateSQL(StorageName(a)),
                        InsertSQL(StorageName(a), RawName(a))>>]
    ELSE IF n = 2
    THEN [ok |-> TRUE,
          queries |-> <<TruncateSQL(AnalysisName(a)),
                        InsertSQL(AnalysisName(a), StorageName(a))>>]
    ELSE [ok |-> FALSE, queries |-> <<>>]

----------------------------------------------------------------------------
(* The warehouse *)

IsTruncate(q, d) == \E t \in DOMAIN d : q = TruncateSQL(t)
IsInsert(q, d) == \E t, s \in DOMAIN d : q = InsertSQL(t, s)

\* the effect of statement q on table contents d
ApplyStatement(q, d) ==
    IF IsTruncate(q, d)
    THEN LET t == CHOOSE t \in DOMAIN d : q = TruncateSQL(t)
         IN  [d EXCEPT ![t] = {}]
    ELSE IF IsInsert(q, d)
    THEN LET p == CHOOSE p \in (DOMAIN d) \X (DOMAIN d) :
                      q = InsertSQL(p[1], p[2])
         IN  [d EXCEPT ![p[1]] = d[p[1]] \cup d[p[2]]]
    ELSE d

Call(op, arg, ok) == [op |-> op, arg |-> arg, ok |-> ok]

\* an uncaught exception leaves main(): the interpreter exits with status 1;
\* the server discards whatever the session had not committed
Terminate(e) ==
    /\ pc' = "done"
    /\ exc' = e
    /\ exit' = 1
    /\ txdb' = db

----------------------------------------------------------------------------
(* Init: the state when main() is entered *)

ArgStrings == UNION {[1..n -> ArgChars] : n \in 0..MaxArgLen}

Init ==
    /\ variant \in Variants
    /\ \E sn \in ArgStrings, rt, st, at \in TableNames :
          /\ variant = "test" => sn = <<>> /\ at = "orders"
          /\ args = [SCHEMA_NO |-> sn,
                     RAW_SCHEMA |-> "raw", RAW_TABLE |-> rt,
                     STORAGE_SCHEMA |-> "storage", STORAGE_TABLE |-> st,
                     ANALYSIS_SCHEMA |-> "analysis", ANALYSIS_TABLE |-> at]
    /\ schema_no = 0
    /\ pc = "start"
    /\ exc = "none"
    /\ conn = "none"
    /\ queries = <<>>
    /\ qi = 1
    /\ log = <<>>
    /\ calls = <<>>
    /\ db \in [{RawName(args), StorageName(args), AnalysisName(args)}
                 -> SUBSET Rows]
    /\ txdb = db
    /\ db0 = db
    /\ truncateCommits \in BOOLEAN
    /\ exit = -1

----------------------------------------------------------------------------
(* Actions *)

\* getResolvedOptions, int(args['SCHEMA_NO']), logger construction and the
\* job_start record
ResolveOptions ==
    /\ pc = "start"
    /\ IF variant = "test2" /\ ~ParseInt(args.SCHEMA_NO).ok
       THEN /\ Terminate("ValueError")
            /\ UNCHANGED <<schema_no, log>>
       ELSE /\ schema_no' = IF variant = "test2"
                            THEN ParseInt(args.SCHEMA_NO).val ELSE 0
            /\ log' = Emit(log, "INFO", "INFO.job_start")
            /\ pc' = "fetch_secret"
            /\ UNCHANGED <<exc, exit, txdb>>
    /\ UNCHANGED <<variant, args, conn, queries, qi, calls, db, db0,
                   truncateCommits>>

\* logger.debug("DEBUG.fetch_secret"); secret_dict = get_secret(secret_name)
GetSecret ==
    /\ pc = "fetch_secret"
    /\ \E ok \in BOOLEAN :
          /\ calls' = Append(calls, Call("get_secret", "", ok))
          /\ log' = Emit(log, "DEBUG", "DEBUG.fetch_secret")
          /\ IF ok
             THEN pc' = "connect" /\ UNCHANGED <<exc, exit, txdb>>
             ELSE Terminate("SecretError")
    /\ UNCHANGED <<variant, args, schema_no, conn, queries, qi, db, db0,
                   truncateCommits>>

\* logger.debug("DEBUG.connect_redshift"); conn = get_redshift_connection(..);
\* logger.info("INFO.connect_redshift_success")
GetRedshiftConnection ==
    /\ pc = "connect"
    /\ \E ok \in BOOLEAN :
          /\ calls' = Append(calls, Call("connect", "", ok))
          /\ IF ok
             THEN /\ conn' = "open"
                  /\ log' = Emit(Emit(log, "DEBUG", "DEBUG.connect_redshift"),
                                 "INFO", "INFO.connect_redshift_success")
                  /\ pc' = "build"
                  /\ UNCHANGED <<exc, exit, txdb>>
             ELSE /\ log' = Emit(log, "DEBUG", "DEBUG.connect_redshift")
                  /\ Terminate(IF variant = "test" THEN "RuntimeError"
                               ELSE "ConnectError")
                  /\ UNCHANGED conn
    /\ UNCHANGED <<variant, args, schema_no, queries, qi, db, db0,
                   truncateCommits>>

\* the statement construction: test.py builds the RAW -> STORAGE pair;
\* test2.py branches on schema_no, and its else branch logs
\* ERROR.invalid_schema_no and raises ValueError
SelectStatements ==
    /\ pc = "build"
    /\ LET b == BuildStatements(variant, schema_no, args) IN
          IF b.ok
          THEN /\ queries' = b.queries
               /\ log' = IF variant = "test2"
                         THEN Emit(log, "INFO", "INFO.schema_selection")
                         ELSE log
               /\ pc' = "try"
               /\ UNCHANGED <<exc, exit, txdb>>
          ELSE /\ log' = Emit(log, "ERROR", "ERROR.invalid_schema_no")
               /\ Terminate("ValueError")
               /\ UNCHANGED queries
    /\ UNCHANGED <<variant, args, schema_no, conn, qi, calls, db, db0,
                   truncateCommits>>

\* try: logger.info("INFO.data_copy_start"); run_queries opens the cursor
DataCopyStart ==
    /\ pc = "try"
    /\ log' = Emit(log, "INFO", "INFO.data_copy_start")
    /\ qi' = 1
    /\ pc' = "run"
    /\ UNCHANGED <<variant, args, schema_no, exc, conn, queries, calls, db,
                   txdb, db0, truncateCommits, exit>>

\* faulty variant: conn.commit() indented into the for loop
LoopDone_Early == qi > 1

\* the for loop of run_queries has run out of queries
LoopDone == qi > Len(queries)

\* cursor.execute(query) for the next query of the loop.  Neither driver
\* autocommits, so a statement acts inside the connection's transaction;
\* where the warehouse's TRUNCATE commits implicitly (Amazon Redshift, the
\* warehouse both files name), a successful TRUNCATE also commits.
CursorExecute ==
    /\ pc = "run"
    /\ ~LoopDone
    /\ \E ok \in BOOLEAN :
          /\ calls' = Append(calls, Call("execute", queries[qi], ok))
          /\ IF ok
             THEN /\ txdb' = ApplyStatement(queries[qi], txdb)
                  /\ db' = IF truncateCommits /\ IsTruncate(queries[qi], txdb)
                           THEN ApplyStatement(queries[qi], txdb)
                           ELSE db
                  /\ qi' = qi + 1
                  /\ UNCHANGED <<pc, exc>>
             ELSE /\ exc' = "ExecutionError"
                  /\ pc' = "except"
                  /\ UNCHANGED <<txdb, db, qi>>
    /\ UNCHANGED <<variant, args, schema_no, conn, queries, log, db0,
                   truncateCommits, exit>>

\* conn.commit() after the loop, then logger.info("INFO.data_copy_end");
\* a commit that raises may or may not have been applied by the server
Commit ==
    /\ pc = "run"
    /\ LoopDone
    /\ \E ok \in BOOLEAN, applied \in BOOLEAN :
          /\ ok => applied
          /\ calls' = Append(calls, Call("commit", "", ok))
          /\ db' = IF applied THEN txdb ELSE db
          /\ IF ok
             THEN /\ log' = Emit(log, "INFO", "INFO.data_copy_end")
                  /\ pc' = "finally"
                  /\ UNCHANGED exc
             ELSE /\ exc' = "CommitError"
                  /\ pc' = "except"
                  /\ UNCHANGED log
    /\ UNCHANGED <<variant, args, schema_no, conn, queries, qi, txdb, db0,
                   truncateCommits, exit>>

\* faulty variant: the handler has no raise, the exception is swallowed
ExceptHandler_Swallow ==
    /\ pc = "except"
    /\ log' = Emit(log, "ERROR", "ERROR.data_copy_fail")
    /\ \E ok \in BOOLEAN :
          /\ calls' = Append(calls, Call("rollback", "", ok))
          /\ txdb' = IF ok THEN db ELSE txdb
          /\ exc' = IF ok THEN "none" ELSE "RollbackError"
    /\ pc' = "finally"
    /\ UNCHANGED <<variant, args, schema_no, conn, queries, qi, db, db0,
                   truncateCommits, exit>>

\* faulty variant: the handler closes the connection before rolling back
ExceptHandler_CloseFirst ==
    /\ pc = "except"
    /\ log' = Emit(log, "ERROR", "ERROR.data_copy_fail")
    /\ conn' = "closed"
    /\ \E ok \in BOOLEAN :
          /\ calls' = calls \o <<Call("close", "", TRUE),
                                 Call("rollback", "", ok)>>
          /\ txdb' = db
          /\ exc' = IF ok THEN exc ELSE "RollbackError"
    /\ pc' = "finally"
    /\ UNCHANGED <<variant, args, schema_no, queries, qi, db, db0,
                   truncateCommits, exit>>

\* except Exception as e: logger.error("ERROR.data_copy_fail");
\* conn.rollback(); raise.  A rollback that raises replaces the exception
\* in flight.
ExceptHandler ==
    /\ pc = "except"
    /\ log' = Emit(log, "ERROR", "ERROR.data_copy_fail")
    /\ \E ok \in BOOLEAN :
          /\ calls' = Append(calls, Call("rollback", "", ok))
          /\ txdb' = IF ok THEN db ELSE txdb
          /\ exc' = IF ok THEN exc ELSE "RollbackError"
    /\ pc' = "finally"
    /\ UNCHANGED <<variant, args, schema_no, conn, queries, qi, db, db0,
                   truncateCommits, exit>>

\* finally: conn.close(); logger.info("INFO.connection_closed").  With an
\* exception in flight main() is left; a close that raises replaces it.
Finally ==
    /\ pc = "finally"
    /\ \E ok \in BOOLEAN :
          /\ calls' = Append(calls, Call("close", "", ok))
          /\ conn' = "closed"
          /\ txdb' = db
          /\ log' = IF ok THEN Emit(log, "INFO", "INFO.connection_closed")
                    ELSE log
          /\ IF ok /\ exc = "none"
             THEN pc' = "job_end" /\ UNCHANGED <<exc, exit>>
             ELSE /\ pc' = "done"
                  /\ exit' = 1
                  /\ exc' = IF ok THEN exc ELSE "CloseError"
    /\ UNCHANGED <<variant, args, schema_no, queries, qi, db, db0,
                   truncateCommits>>

\* logger.info("INFO.job_end"); main() returns and the process exits 0
JobEnd ==
    /\ pc = "job_end"
    /\ log' = Emit(log, "INFO", "INFO.job_end")
    /\ pc' = "done"
    /\ exit' = 0
    /\ UNCHANGED <<variant, args, schema_no, exc, conn, queries, qi, calls,
                   db, txdb, db0, truncateCommits>>

Next ==
    \/ ResolveOptions
    \/ GetSecret
    \/ GetRedshiftConnection
    \/ SelectStatements
    \/ DataCopyStart
    \/ CursorExecute
    \/ Commit
    \/ ExceptHandler
    \/ Finally
    \/ JobEnd

Spec == Init /\ [][Next]_vars

TypeOK ==
    /\ variant \in Variants
    /\ pc \in {"start", "fetch_secret", "connect", "build", "try", "run",
               "except", "finally", "job_end", "done"}
    /\ conn \in {"none", "open", "closed"}
    /\ exit \in {-1, 0, 1}
    /\ qi \in 1..3
    /\ Len(queries) \in {0, 2}

----------------------------------------------------------------------------
(* Vocabulary of the properties *)

CallIdx == 1..Len(calls)
Count(op) == Cardinality({i \in CallIdx : calls[i].op = op})

IsTruncateCall(i) == calls[i].op = "execute" /\ IsTruncate(calls[i].arg, db)
IsInsertCall(i) == calls[i].op = "execute" /\ IsInsert(calls[i].arg, db)

Issued(op) == \E i \in CallIdx : calls[i].op = op
Succeeded(op) == \E i \in CallIdx : calls[i].op = op /\ calls[i].ok
ConnectionOpened == Succeeded("connect")
StatementFailed == \E i \in CallIdx : calls[i].op = "execute" /\ ~calls[i].ok
BothStatementsApplied ==
    \E i, j \in CallIdx :
        /\ i < j
        /\ IsTruncateCall(i) /\ calls[i].ok
        /\ IsInsertCall(j) /\ calls[j].ok

\* the SCHEMA_NO argument of the mode-selecting variant is not 1 or 2
InvalidMode ==
    /\ variant = "test2"
    /\ \/ ~ParseInt(args.SCHEMA_NO).ok
       \/ ParseInt(args.SCHEMA_NO).val \notin {1, 2}

\* an invalid but numeric mode, the one the else branch rejects
InvalidNumericMode ==
    /\ variant = "test2"
    /\ ParseInt(args.SCHEMA_NO).ok
    /\ ParseInt(args.SCHEMA_NO).val \notin {1, 2}

ErrorLogged == \E i \in 1..Len(log) : log[i].level = "ERROR"

----------------------------------------------------------------------------
(* C1: with a SCHEMA_NO outside {1,2} the run is rejected before any
   connection to the warehouse is attempted: no run with an invalid mode
   ever calls the connection open. *)
C1_InvalidModeNeverConnects ==
    InvalidMode => ~Issued("connect")

(* C2: a run that ends and had opened a connection has closed it exactly
   once; no opened connection is left unclosed at termination. *)
C2_ClosedExactlyOnce ==
    pc = "done" /\ ConnectionOpened => Count("close") = 1 /\ conn = "closed"

(* C3: when the insert statement fails after the truncate succeeded, a
   rollback is issued before the connection is closed and the tables'
   committed content after the run equals their content before the run. *)
C3_FailedInsertLeavesTableUnchanged ==
    (/\ pc = "done"
     /\ \E i, j \in CallIdx :
           /\ i < j
           /\ IsTruncateCall(i) /\ calls[i].ok
           /\ IsInsertCall(j) /\ ~calls[j].ok)
    => /\ \E r, c \in CallIdx :
             r < c /\ calls[r].op = "rollback" /\ calls[c].op = "close"
       /\ db = db0

(* C4: commit is issued at most once and only after both the truncate and
   the insert have been executed without error; once a statement has failed
   commit is never issued, and the handler issues a rollback instead. *)
C4_CommitOnlyAfterAllSucceed ==
    /\ Count("commit") <= 1
    /\ \A k \in CallIdx :
          calls[k].op = "commit" =>
             /\ ~StatementFailed
             /\ \E i, j \in 1..(k - 1) :
                   /\ i < j
                   /\ IsTruncateCall(i) /\ calls[i].ok
                   /\ IsInsertCall(j) /\ calls[j].ok
    /\ StatementFailed =>
          /\ ~Issued("commit")
          /\ pc \in {"finally", "done"} => Count("rollback") = 1

C4_Witness ==
    /\ pc = "done"
    /\ Succeeded("commit")
    /\ BothStatementsApplied

(* C5: for a valid mode the statement construction yields exactly two
   statements, a truncate of the target and an insert into the same target
   selecting from the source: storage from raw in mode 1 and in the
   mode-less variant, analysis from storage in mode 2; the source is never
   the target; construction fails only for an invalid mode. *)
C5_StatementsPerMode ==
    LET raw == args.RAW_SCHEMA \o "." \o args.RAW_TABLE
        sto == args.STORAGE_SCHEMA \o "." \o args.STORAGE_TABLE
        ana == args.ANALYSIS_SCHEMA \o "." \o args.ANALYSIS_TABLE
        built == pc \in {"try", "run", "except", "finally", "job_end"}
                 \/ (pc = "done" /\ conn = "closed")
    IN  /\ built /\ (variant = "test" \/ schema_no = 1) =>
              queries = <<"TRUNCATE TABLE " \o sto,
                          "INSERT INTO " \o sto \o " SELECT * FROM " \o raw>>
        /\ built /\ variant = "test2" /\ schema_no = 2 =>
              queries = <<"TRUNCATE TABLE " \o ana,
                          "INSERT INTO " \o ana \o " SELECT * FROM " \o sto>>
        /\ built =>
              /\ Len(queries) = 2
              /\ ~InvalidMode
              /\ \A t \in DOMAIN db :
                    queries[2] # "INSERT INTO " \o t \o " SELECT * FROM " \o t
        /\ built /\ variant = "test" /\ args.RAW_TABLE = "orders"
                 /\ args.STORAGE_TABLE = "orders" =>
              queries = <<"TRUNCATE TABLE storage.orders",
                          "INSERT INTO storage.orders SELECT * FROM raw.orders">>
        /\ pc = "done" /\ conn = "open" => InvalidMode

C5_Witness ==
    /\ variant = "test2"
    /\ schema_no = 2
    /\ pc = "try"
    /\ queries = <<"TRUNCATE TABLE analysis.items",
                   "INSERT INTO analysis.items SELECT * FROM storage.orders">>

(* C6: a run with an invalid mode executes no statement and issues no
   commit, never exits with status 0, and ends with status 1. *)
C6_InvalidModeRunsNoQuery ==
    InvalidMode =>
       /\ ~Issued("execute")
       /\ ~Issued("commit")
       /\ exit # 0
       /\ pc \in {"start", "fetch_secret", "connect", "build", "done"}
       /\ pc = "done" => exit = 1

C6_Witness ==
    /\ args.SCHEMA_NO = <<"3">>
    /\ schema_no = 3
    /\ pc = "done"
    /\ exit = 1
    /\ exc = "ValueError"
    /\ calls = <<Call("get_secret", "", TRUE), Call("connect", "", TRUE)>>

(* C7: a finished run has exit status 0 exactly when no step failed: status
   0 requires both statements executed and the commit succeeded, and every
   failing call or invalid mode ends the run with status 1, the error caught
   by the handler included. *)
C7_ExitZeroIffSucceeded ==
    pc = "done" =>
       /\ exit \in {0, 1}
       /\ exit = 0 <=> (~InvalidMode /\ \A i \in CallIdx : calls[i].ok)
       /\ exit = 0 =>
             /\ BothStatementsApplied
             /\ Succeeded("commit")
             /\ exc = "none"
       /\ exit = 1 => exc # "none"

C7_Witness ==
    /\ pc = "done"
    /\ exit = 1
    /\ exc = "ExecutionError"
    /\ \E r, c \in CallIdx :
          /\ r < c
          /\ calls[r] = Call("rollback", "", TRUE)
          /\ calls[c] = Call("close", "", TRUE)

(* C8: every run that ends in failure has emitted an ERROR-level log record
   before it ended. *)
C8_EveryErrorLogged ==
    pc = "done" /\ exit = 1
                /\ exc \in {"ValueError", "SecretError", "RuntimeError",
                            "ConnectError", "ExecutionError"}
    => ErrorLogged

(* C9: a finished run that had opened a connection has its transaction
   either committed, with both statements applied, or rolled back by a
   completed rollback call issued before the close. *)
C9_CommittedOrRolledBack ==
    pc = "done" /\ ConnectionOpened =>
       \/ Succeeded("commit") /\ BothStatementsApplied
       \/ \E r, c \in CallIdx :
             /\ r < c
             /\ calls[r].op = "rollback" /\ calls[r].ok
             /\ calls[c].op = "close"

(* C10: the calls of a run come in a fixed order without retry: the secret
   is fetched before the connection is opened, the connection is opened
   before any statement, the insert is attempted only after a successful
   truncate, nothing is executed after a failed statement, each of secret
   fetch, connection open, truncate and insert is attempted at most once,
   and no execute, commit or rollback follows the close. *)
C10_FixedOrderNoRetry ==
    /\ Count("get_secret") <= 1
    /\ Count("connect") <= 1
    /\ Cardinality({i \in CallIdx : IsTruncateCall(i)}) <= 1
    /\ Cardinality({i \in CallIdx : IsInsertCall(i)}) <= 1
    /\ \A j \in CallIdx :
          /\ calls[j].op = "connect" =>
                \E i \in 1..(j - 1) : calls[i] = Call("get_secret", "", TRUE)
          /\ calls[j].op = "execute" =>
                /\ IsTruncateCall(j) \/ IsInsertCall(j)
                /\ \E i \in 1..(j - 1) : calls[i] = Call("connect", "", TRUE)
                /\ \A i \in 1..(j - 1) :
                      calls[i].op = "execute" => calls[i].ok
          /\ IsInsertCall(j) =>
                \E i \in 1..(j - 1) : IsTruncateCall(i) /\ calls[i].ok
          /\ calls[j].op \in {"execute", "commit", "rollback"} =>
                \A i \in 1..(j - 1) : calls[i].op # "close"

C10_Witness ==
    /\ pc = "done"
    /\ Len(calls) = 6
    /\ calls[1].op = "get_secret"
    /\ calls[2].op = "connect"
    /\ IsTruncateCall(3) /\ calls[3].ok
    /\ IsInsertCall(4) /\ ~calls[4].ok
    /\ calls[5].op = "rollback"
    /\ calls[6].op = "close"

====
